---- MODULE Spec2Model ----
(***************************************************************************)
(* wspick: the configuration lifecycle, the directory scan and the         *)
(* selection loop of src/main.rs.                                          *)
(*                                                                         *)
(* Strings whose content matters (project names, paths, menu entries) are  *)
(* sequences of one-character strings, so that ordering (Vec::sort on      *)
(* String), substring search (str::contains) and prefix tests              *)
(* (str::starts_with) are computed and not assumed.  Command names         *)
(* (open_cmd, editor) are only tested for emptiness and spawned, so they   *)
(* are plain strings.                                                      *)
(***************************************************************************)
EXTENDS Integers, Sequences, FiniteSets, TLC

(***************************************************************************)
(* Bounds of the model.                                                    *)
(***************************************************************************)
\* passes of the selection loop `while path.is_none()` that are explored
MaxIter == 3
\* nesting of load_config inside the recovery loop's edit_project
MaxDepth == 1
\* applications of update_config explored by SpecMigrate
MaxMigrations == 2

(***************************************************************************)
(* Strings.                                                                *)
(***************************************************************************)
\* the characters in use, in the order of their bytes
ByteOrder ==
  <<" ", ".", "/", "R", "[", "]", "a", "b", "c", "d", "e", "g", "i", "j",
    "n", "o", "p", "q", "r", "s", "t", "u", "v", "w">>

Code(c) == CHOOSE i \in 1..Len(ByteOrder) : ByteOrder[i] = c

\* s < t, the order of String (bytewise lexicographic)
StrLess(s, t) ==
  \E i \in 1..(Len(t)) :
    /\ \A j \in 1..(i - 1) : j <= Len(s) /\ s[j] = t[j]
    /\ \/ i = Len(s) + 1
       \/ i <= Len(s) /\ Code(s[i]) < Code(t[i])

StrLe(s, t) == s = t \/ StrLess(s, t)

\* str::contains(needle)
Contains(hay, needle) ==
  \E i \in 0..(Len(hay) - Len(needle)) :
    SubSeq(hay, i + 1, i + Len(needle)) = needle

\* str::starts_with('.')
StartsWithDot(s) == Len(s) > 0 /\ s[1] = "."

IsSorted(seq) == \A i \in 1..(Len(seq) - 1) : StrLe(seq[i], seq[i + 1])

RECURSIVE InsertSorted(_, _)
InsertSorted(sorted, s) ==
  IF sorted = <<>> THEN <<s>>
  ELSE IF StrLess(s, Head(sorted)) THEN <<s>> \o sorted
  ELSE <<Head(sorted)>> \o InsertSorted(Tail(sorted), s)

\* Vec<String>::sort (stable)
RECURSIVE SortStrings(_)
SortStrings(seq) ==
  IF seq = <<>> THEN <<>>
  ELSE InsertSorted(SortStrings(SubSeq(seq, 1, Len(seq) - 1)), seq[Len(seq)])

Range(seq) == {seq[i] : i \in 1..Len(seq)}

\* the strings of a set, in ascending order
RECURSIVE SortedSeqOf(_)
SortedSeqOf(S) ==
  IF S = {} THEN <<>>
  ELSE LET m == CHOOSE s \in S : \A t \in S : StrLe(s, t)
       IN  <<m>> \o SortedSeqOf(S \ {m})

(***************************************************************************)
(* Option<T>.                                                              *)
(***************************************************************************)
Some(x) == [some |-> TRUE, v |-> x]
NoneStr == [some |-> FALSE, v |-> <<>>]
NoneVec == [some |-> FALSE, v |-> <<>>]
NoneBool == [some |-> FALSE, v |-> FALSE]
UnwrapOr(opt, dflt) == IF opt.some THEN opt.v ELSE dflt

(***************************************************************************)
(* IndexMap<String, String>: a sequence of entries, keys unique.           *)
(***************************************************************************)
Keys(m) == [i \in 1..Len(m) |-> m[i].k]
HasKey(m, key) == \E i \in 1..Len(m) : m[i].k = key
IndexOf(m, key) == CHOOSE i \in 1..Len(m) : m[i].k = key
Get(m, key) == m[IndexOf(m, key)].v

\* IndexMap::insert under a key that may exist: an append that does not look
\* the key up
InsertAlwaysAppends(m, key, val) == Append(m, [k |-> key, v |-> val])

\* IndexMap::insert: an existing key keeps its position and gets the new
\* value, a new key is appended
IndexMapInsert(m, key, val) ==
  IF HasKey(m, key)
  THEN [m EXCEPT ![IndexOf(m, key)] = [k |-> key, v |-> val]]
  ELSE Append(m, [k |-> key, v |-> val])

\* IndexMap::swap_remove: the last entry takes the place of the removed one
SwapRemove(m, key) ==
  LET i == IndexOf(m, key)
      n == Len(m)
  IN  IF i = n THEN SubSeq(m, 1, n - 1)
      ELSE SubSeq([m EXCEPT ![i] = m[n]], 1, n - 1)

(***************************************************************************)
(* Paths and the file system the program runs on.                          *)
(***************************************************************************)
RECURSIVE SplitAt(_, _)
SplitAt(p, cur) ==
  IF p = <<>> THEN (IF cur = <<>> THEN <<>> ELSE <<cur>>)
  ELSE IF Head(p) = "/"
       THEN (IF cur = <<>> THEN <<>> ELSE <<cur>>) \o SplitAt(Tail(p), <<>>)
       ELSE SplitAt(Tail(p), Append(cur, Head(p)))

\* Path::components of an absolute path: empty and `.` components vanish
Components(p) == SelectSeq(SplitAt(p, <<>>), LAMBDA c : c # <<".">>)

\* Path::file_name: None for the root and for a path ending in `..`
FileName(p) ==
  LET c == Components(p)
  IN  IF c = <<>> \/ c[Len(c)] = <<".", ".">> THEN NoneStr ELSE Some(c[Len(c)])

\* PathBuf::join of a directory and a relative name
Join(dir, name) ==
  IF dir # <<>> /\ dir[Len(dir)] = "/" THEN dir \o name ELSE dir \o <<"/">> \o name

\* The directory tree: every node below the root, by its components.  The
\* kind "unknown" is an entry whose file type cannot be read.
FsTree ==
  { [comps |-> <<(<<"w">>)>>, kind |-> "dir"],
    [comps |-> <<(<<"w">>), (<<"a">>)>>, kind |-> "dir"],
    [comps |-> <<(<<"w">>), (<<"b">>)>>, kind |-> "dir"],
    [comps |-> <<(<<"w">>), (<<"w">>)>>, kind |-> "dir"],
    [comps |-> <<(<<"w">>), (<<".", "g">>)>>, kind |-> "dir"],
    [comps |-> <<(<<"w">>), (<<"R">>)>>, kind |-> "file"],
    [comps |-> <<(<<"w">>), (<<"q">>)>>, kind |-> "unknown"],
    [comps |-> <<(<<"v">>)>>, kind |-> "dir"],
    [comps |-> <<(<<"v">>), (<<"a">>)>>, kind |-> "dir"],
    [comps |-> <<(<<"v">>), (<<"c">>)>>, kind |-> "dir"],
    [comps |-> <<(<<"v">>), (<<"[", "e", "d", "i", "t", "]">>)>>, kind |-> "dir"],
    [comps |-> <<(<<"u">>)>>, kind |-> "dir"],
    [comps |-> <<(<<"u">>), (<<".", "g">>)>>, kind |-> "dir"],
    [comps |-> <<(<<"u">>), (<<"s">>)>>, kind |-> "dir"],
    [comps |-> <<(<<"u">>), (<<"R">>)>>, kind |-> "file"] }

\* Path::try_exists
Exists(p) ==
  Components(p) = <<>> \/ \E n \in FsTree : n.comps = Components(p)

IsDirectory(p) ==
  \/ Components(p) = <<>>
  \/ \E n \in FsTree : n.comps = Components(p) /\ n.kind = "dir"

\* the entries fs::read_dir(dir) yields, as [name, kind]
DirEntries(dir) ==
  LET c == Components(dir)
  IN  { [name |-> n.comps[Len(n.comps)], kind |-> n.kind] :
          n \in { m \in FsTree : /\ Len(m.comps) = Len(c) + 1
                                 /\ SubSeq(m.comps, 1, Len(c)) = c } }

\* fs::read_dir: an error unless dir is a readable directory.  The order of
\* the entries is the platform's; the scan sorts its result and keys its map
\* by name, so the entries are taken in the order of their names.
ReadDir(dir) ==
  IF IsDirectory(dir)
  THEN [ok |-> TRUE,
        entries |-> LET es == DirEntries(dir)
                        names == SortedSeqOf({e.name : e \in es})
                    IN  [i \in 1..Len(names) |->
                           CHOOSE e \in es : e.name = names[i]]]
  ELSE [ok |-> FALSE, entries |-> <<>>]

(***************************************************************************)
(* The Registry (struct Projects) and the config file.                     *)
(***************************************************************************)
\* Projects::new(), with the editor edit::get_editor() found
ProjectsNew(default_editor) ==
  [dirs |-> Some(<<>>),
   open_cmd |-> "",
   editor |-> default_editor,
   sort |-> Some(TRUE),
   exclude_proj_dirs |-> Some(FALSE),
   paths |-> <<>>]

RequiredKeys == {"open_cmd", "editor", "paths"}
OptionalKeys == {"dirs", "sort", "exclude_proj_dirs"}

\* A TOML document: whether it is well-formed, the top-level keys it holds,
\* and their values (the value of a key it does not hold is immaterial and
\* kept at a fixed filler).
TomlDoc(syntax_ok, present, dirs, open_cmd, editor, sort, exclude_proj_dirs, paths) ==
  [syntax_ok |-> syntax_ok,
   present |-> present,
   dirs |-> IF "dirs" \in present THEN dirs ELSE <<>>,
   open_cmd |-> IF "open_cmd" \in present THEN open_cmd ELSE "",
   editor |-> IF "editor" \in present THEN editor ELSE "",
   sort |-> IF "sort" \in present THEN sort ELSE FALSE,
   exclude_proj_dirs |->
     IF "exclude_proj_dirs" \in present THEN exclude_proj_dirs ELSE FALSE,
   paths |-> IF "paths" \in present THEN paths ELSE <<>>]

\* toml::ser::to_string_pretty: a None field is not written
ToToml(config) ==
  TomlDoc(TRUE,
          RequiredKeys \cup {k \in OptionalKeys : config[k].some},
          config.dirs.v, config.open_cmd, config.editor, config.sort.v,
          config.exclude_proj_dirs.v, config.paths)

\* toml::from_str::<Projects>: an error on malformed text or a missing
\* required key, None for a missing Option field
FromToml(doc) ==
  IF doc.syntax_ok /\ RequiredKeys \subseteq doc.present
  THEN [ok |-> TRUE,
        v |-> [dirs |-> IF "dirs" \in doc.present THEN Some(doc.dirs) ELSE NoneVec,
               open_cmd |-> doc.open_cmd,
               editor |-> doc.editor,
               sort |-> IF "sort" \in doc.present THEN Some(doc.sort) ELSE NoneBool,
               exclude_proj_dirs |->
                 IF "exclude_proj_dirs" \in doc.present
                 THEN Some(doc.exclude_proj_dirs) ELSE NoneBool,
               paths |-> doc.paths]]
  ELSE [ok |-> FALSE, v |-> ProjectsNew("")]

NoFile == [exists |-> FALSE, text |-> ToToml(ProjectsNew(""))]

\* save_config: the file holds the serialised registry (the comment lines
\* it adds are not read back)
SaveConfig(config) == [exists |-> TRUE, text |-> ToToml(config)]

\* sort_config's loop: each key, in sorted order, is moved from the old map
\* to the new one
RECURSIVE MoveKeys(_, _, _)
MoveKeys(keys, old, new) ==
  IF keys = <<>> THEN new
  ELSE MoveKeys(Tail(keys),
                SwapRemove(old, Head(keys)),
                IndexMapInsert(new, Head(keys), Get(old, Head(keys))))

SortConfig(config) ==
  IF UnwrapOr(config.sort, FALSE)
  THEN [config EXCEPT
          !.paths = MoveKeys(SortStrings(Keys(config.paths)), config.paths, <<>>)]
  ELSE config

\* update_config, lines 233-245: every absent field gets its default, and
\* paths are sorted when `sort` was absent
UpdateConfigDefaults(config) ==
  LET c1 == IF ~config.sort.some
            THEN SortConfig([config EXCEPT !.sort = Some(TRUE)]) ELSE config
      c2 == IF ~c1.dirs.some THEN [c1 EXCEPT !.dirs = Some(<<>>)] ELSE c1
  IN  IF ~c2.exclude_proj_dirs.some
      THEN [c2 EXCEPT !.exclude_proj_dirs = Some(FALSE)] ELSE c2

\* update_config's `changed` when the function is about to save
UpdateConfigChanged(config) ==
  ~config.sort.some \/ ~config.dirs.some \/ ~config.exclude_proj_dirs.some

\* update_config with `changed` starting out true
UpdateConfigAlwaysSaves(config, f) ==
  [config |-> UpdateConfigDefaults(config),
   file |-> SaveConfig(UpdateConfigDefaults(config)),
   writes |-> 1]

\* update_config: the registry after it, the file after it, and the number
\* of save_config calls it made
UpdateConfig(config, f) ==
  IF UpdateConfigChanged(config)
  THEN [config |-> UpdateConfigDefaults(config),
        file |-> SaveConfig(UpdateConfigDefaults(config)),
        writes |-> 1]
  ELSE [config |-> config, file |-> f, writes |-> 0]

(***************************************************************************)
(* The directory scan, add_options_from_dirs.                              *)
(***************************************************************************)
EmptyMap == [x \in {} |-> <<>>]

\* HashMap::insert
MapInsert(map, key, val) ==
  [x \in DOMAIN map \cup {key} |-> IF x = key THEN val ELSE map[x]]

\* the retain closure that compares whole strings instead of searching them
RetainedByEquality(config, name) ==
  /\ \A i \in 1..Len(config.paths) : config.paths[i].v # name
  /\ config.dirs.some => \A i \in 1..Len(config.dirs.v) : config.dirs.v[i] # name

\* the closure of paths.retain: false when the entry's name occurs inside a
\* project path or inside a search directory
Retained(config, name) ==
  /\ \A i \in 1..Len(config.paths) : ~Contains(config.paths[i].v, name)
  /\ config.dirs.some =>
       \A i \in 1..Len(config.dirs.v) : ~Contains(config.dirs.v[i], name)

\* the filter without the file_type test: every entry is kept
KeptEntriesOfAnyKind(config, entries) ==
  IF config.exclude_proj_dirs.some /\ config.exclude_proj_dirs.v
  THEN SelectSeq(entries, LAMBDA e : Retained(config, e.name))
  ELSE entries

\* the entries of one directory that reach the final loop: directories only,
\* and with exclude_proj_dirs = Some(true) only the retained ones
KeptEntries(config, entries) ==
  LET dirs_only == SelectSeq(entries, LAMBDA e : e.kind = "dir")
  IN  IF config.exclude_proj_dirs.some /\ config.exclude_proj_dirs.v
      THEN SelectSeq(dirs_only, LAMBDA e : Retained(config, e.name))
      ELSE dirs_only

\* the final loop with the push ahead of the hidden-name test: a hidden name
\* is offered but not mapped
RECURSIVE PushEntriesListsHidden(_, _, _)
PushEntriesListsHidden(dir, entries, acc) ==
  IF entries = <<>> THEN acc
  ELSE LET name == Head(entries).name
       IN  IF StartsWithDot(name)
           THEN PushEntriesListsHidden(dir, Tail(entries),
                  [acc EXCEPT !.options = Append(@, name)])
           ELSE PushEntriesListsHidden(dir, Tail(entries),
                  [acc EXCEPT !.options = Append(@, name),
                              !.map = MapInsert(@, name, Join(dir, name))])

\* the final loop over one directory's entries: hidden names are skipped,
\* the others are pushed to options and inserted into the map
RECURSIVE PushEntries(_, _, _)
PushEntries(dir, entries, acc) ==
  IF entries = <<>> THEN acc
  ELSE LET name == Head(entries).name
       IN  IF StartsWithDot(name)
           THEN PushEntries(dir, Tail(entries), acc)
           ELSE PushEntries(dir, Tail(entries),
                  [acc EXCEPT !.options = Append(@, name),
                              !.map = MapInsert(@, name, Join(dir, name))])

\* the loop over config.dirs, from the i-th on; a read_dir error ends the
\* function with that error
RECURSIVE ScanDirs(_, _, _)
ScanDirs(config, i, acc) ==
  IF i > Len(config.dirs.v) THEN acc
  ELSE LET dir == config.dirs.v[i]
       IN  IF ~FileName(dir).some THEN ScanDirs(config, i + 1, acc)
           ELSE IF ~ReadDir(dir).ok THEN [acc EXCEPT !.ok = FALSE]
           ELSE ScanDirs(config, i + 1,
                  PushEntries(dir, KeptEntries(config, ReadDir(dir).entries), acc))

\* add_options_from_dirs(config, options): Ok or Err, the options after it
\* and the map it returns
AddOptionsFromDirs(config, options) ==
  LET start == [ok |-> TRUE, options |-> options, map |-> EmptyMap]
  IN  IF config.dirs.some
      THEN LET r == ScanDirs(config, 1, start)
           IN  IF r.ok THEN [r EXCEPT !.options = SortStrings(@)] ELSE r
      ELSE start

NEW_PROJECT == <<"[", "n", "e", "w", " ", "p", "r", "o", "j", "e", "c", "t", "]">>
NEW_DIR == <<"[", "n", "e", "w", " ", "d", "i", "r", "]">>
EDIT == <<"[", "e", "d", "i", "t", "]">>

\* the option list main builds for one pass of the loop
BuildOptions(config) ==
  LET r == AddOptionsFromDirs(config, Keys(config.paths))
  IN  [r EXCEPT !.options = @ \o <<NEW_PROJECT, NEW_DIR, EDIT>>]

(***************************************************************************)
(* The environment: what the user types, what the editor leaves behind,    *)
(* which commands can be spawned.                                          *)
(***************************************************************************)
Entry(key, val) == [k |-> key, v |-> val]

CMD_NEW == <<"n", "e", "w">>
CMD_EDIT == <<"e", "d", "i", "t">>

PathW == <<"/", "w">>
PathV == <<"/", "v">>
PathRoot == <<"/">>
PathWA == <<"/", "w", "/", "a">>
PathWB == <<"/", "w", "/", "b">>
PathVC == <<"/", "v", "/", "c">>
PathWR == <<"/", "w", "/", "R">>
PathNo == <<"/", "n", "o">>
PathU == <<"/", "u">>

\* the command lines the program is started with (struct Flags)
Invocations ==
  { [print |-> pr, cmd_or_path |-> c, new_path |-> np] :
      pr \in BOOLEAN,
      c \in {NoneStr, Some(CMD_NEW), Some(CMD_EDIT), Some(PathWA)},
      np \in {NoneStr} }
  \cup
  { [print |-> FALSE, cmd_or_path |-> Some(CMD_NEW), new_path |-> Some(np)] :
      np \in {PathWB, PathNo} }

\* what the user types at `project name:`
ProjectNames == {<<"a">>, <<"b">>}

\* what the user types at a prompt that has the FileValidator
TypedPaths == {PathW, PathV, PathWA, PathWR, PathRoot, PathNo}

\* FileValidator::validate: the prompt returns only what it finds Valid
FileValidatorAccepts == {p \in TypedPaths : Exists(p)}

\* the commands Command::spawn finds
Installed == {"vi", "code"}
Spawnable(cmd) == cmd \in Installed

\* what edit::get_editor() may give Projects::new(): an editor, or ""
DefaultEditors == {"vi", ""}

AllKeys == RequiredKeys \cup OptionalKeys

\* sort = true over keys that are not in order, exclude_proj_dirs = true
DocUnsorted ==
  TomlDoc(TRUE, AllKeys, <<PathW>>, "code", "vi", TRUE, TRUE,
          <<Entry(<<"b">>, PathVC), Entry(<<"a">>, PathWA)>>)

\* a file of the first schema: no dirs, sort or exclude_proj_dirs
DocOldSchema ==
  TomlDoc(TRUE, RequiredKeys, <<>>, "", "vi", FALSE, FALSE,
          <<Entry(<<"b">>, PathWB), Entry(<<"a">>, PathWA)>>)

\* text that is no TOML
DocBroken == TomlDoc(FALSE, {}, <<>>, "", "", FALSE, FALSE, <<>>)

\* two search directories, no exclude_proj_dirs, commands that do not exist
DocTwoDirs ==
  TomlDoc(TRUE, AllKeys \ {"exclude_proj_dirs"}, <<PathW, PathV>>, "nox", "",
          FALSE, FALSE, <<Entry(<<"a">>, PathWA)>>)

\* a search directory that does not exist
DocBadDir ==
  TomlDoc(TRUE, AllKeys, <<PathNo>>, "code", "vi", TRUE, FALSE, <<>>)

\* a project named like a menu action, and a search directory that holds a
\* hidden directory, a directory and a file
DocSentinelKey ==
  TomlDoc(TRUE, AllKeys, <<PathU>>, "code", "vi", FALSE, FALSE,
          <<Entry(NEW_DIR, PathWB)>>)

EditedDocs ==
  {DocUnsorted, DocOldSchema, DocBroken, DocTwoDirs, DocBadDir, DocSentinelKey}

InitialFiles == {NoFile} \cup {[exists |-> TRUE, text |-> d] : d \in EditedDocs}

\* the file when the editor exits: as it was, or rewritten
EditorResults(f) == {f} \cup {[exists |-> TRUE, text |-> d] : d \in EditedDocs}

(***************************************************************************)
(* State.                                                                  *)
(***************************************************************************)
VARIABLES
  flags,        \* the parsed command line
  env_editor,   \* the editor Projects::new() finds
  file,         \* the config file
  config,       \* main's `config`
  pc,           \* where the program is
  ret,          \* who called load_config: "main" or "edit" (edit_project)
  depth,        \* load_config calls nested below the first one
  path,         \* main's `path`
  options,      \* the option list of the menu being shown
  dir_paths,    \* the map add_options_from_dirs returned for that menu
  iter,         \* passes of the selection loop begun
  status,       \* "running", or how the process ended
  file_writes,  \* calls of fs::write on the config file
  shown,        \* the kinds of prompt shown so far
  edit_flows,   \* calls of edit_project made by main
  launches,     \* the calls of open_project
  stdout,       \* what println! wrote
  spawned,      \* the open_cmd processes spawned
  last_mut,     \* the registry mutation that completed last
  migrated,     \* update_config has run
  cancelled,    \* the selection prompt returned None
  chosen,       \* the string the selection prompt returned last
  spawn_failed, \* a Command::spawn has returned an error
  migrations    \* applications of update_config (SpecMigrate)

vars ==
  <<flags, env_editor, file, config, pc, ret, depth, path, options, dir_paths,
    iter, status, file_writes, shown, edit_flows, launches, stdout, spawned,
    last_mut, migrated, cancelled, chosen, spawn_failed, migrations>>

Init ==
  /\ flags \in Invocations
  /\ env_editor \in DefaultEditors
  /\ file \in InitialFiles
  /\ config = ProjectsNew("")
  /\ pc = "start"
  /\ ret = "main"
  /\ depth = 0
  /\ path = NoneStr
  /\ options = <<>>
  /\ dir_paths = EmptyMap
  /\ iter = 0
  /\ status = "running"
  /\ file_writes = 0
  /\ shown = {}
  /\ edit_flows = 0
  /\ launches = <<>>
  /\ stdout = <<>>
  /\ spawned = <<>>
  /\ last_mut = "none"
  /\ migrated = FALSE
  /\ cancelled = FALSE
  /\ chosen = NoneStr
  /\ spawn_failed = FALSE
  /\ migrations = 0

(***************************************************************************)
(* main, up to the selection loop.                                         *)
(***************************************************************************)
\* the process ends: main returns Ok (exit0) or Err (exit1), calls
\* process::exit(1), or panics
Ended(how) == pc' = "done" /\ status' = how

\* load_config returned Ok(reg) to its first caller.  In main the migration
\* follows; in edit_project every field of `config` is replaced and the
\* selection loop is next.
LoadReturns(caller, reg) ==
  /\ config' = reg
  /\ depth' = 0
  /\ IF caller = "main"
     THEN pc' = "migrate" /\ last_mut' = last_mut
     ELSE pc' = "build" /\ last_mut' = "edit_project"

\* main whose load_config returns a parse error to its caller instead of
\* opening the recovery prompt
Main_LoadFailsFast ==
  /\ pc = "start"
  /\ LET created == ~file.exists
         f == IF created THEN SaveConfig(ProjectsNew(env_editor)) ELSE file
         parsed == FromToml(f.text)
     IN  /\ file' = f
         /\ file_writes' = file_writes + (IF created THEN 1 ELSE 0)
         /\ ret' = "main"
         /\ IF parsed.ok
            THEN LoadReturns("main", parsed.v) /\ status' = status
            ELSE Ended("exit1") /\ UNCHANGED <<config, depth, last_mut>>
  /\ UNCHANGED <<flags, chosen, spawn_failed, env_editor, path, options,
                 dir_paths, iter, shown, edit_flows, launches, stdout, spawned,
                 migrated, cancelled, migrations>>

\* main, lines 61-72: the config file is created when missing, then read and
\* parsed; a parse error opens the recovery prompt
Main_Load ==
  /\ pc = "start"
  /\ LET created == ~file.exists
         f == IF created THEN SaveConfig(ProjectsNew(env_editor)) ELSE file
         parsed == FromToml(f.text)
     IN  /\ file' = f
         /\ file_writes' = file_writes + (IF created THEN 1 ELSE 0)
         /\ ret' = "main"
         /\ IF parsed.ok
            THEN LoadReturns("main", parsed.v) /\ shown' = shown
            ELSE /\ pc' = "recover"
                 /\ shown' = shown \cup {"recover"}
                 /\ UNCHANGED <<config, depth, last_mut>>
  /\ UNCHANGED <<flags, chosen, spawn_failed, env_editor, path, options,
                 dir_paths, iter, status, edit_flows, launches, stdout,
                 spawned, migrated, cancelled, migrations>>

\* main, line 74
Main_UpdateConfig ==
  /\ pc = "migrate"
  /\ LET r == UpdateConfig(config, file)
     IN  /\ config' = r.config
         /\ file' = r.file
         /\ file_writes' = file_writes + r.writes
  /\ migrated' = TRUE
  /\ pc' = "dispatch"
  /\ UNCHANGED <<flags, chosen, spawn_failed, env_editor, ret, depth, path,
                 options, dir_paths, iter, status, shown, edit_flows, launches,
                 stdout, spawned, last_mut, cancelled, migrations>>

\* new_project: the name prompt, the path prompt unless a path is given,
\* the insertion, sort_config and save_config; main takes the path as resolved
NewProject(given, sel) ==
  \E name \in ProjectNames :
    \E p \in (IF given.some THEN {given.v} ELSE FileValidatorAccepts) :
      /\ config' = SortConfig([config EXCEPT !.paths = IndexMapInsert(@, name, p)])
      /\ file' = SaveConfig(config')
      /\ file_writes' = file_writes + 1
      /\ shown' = shown \cup {"text"}
      /\ path' = Some(p)
      /\ last_mut' = "new_project"
      /\ pc' = "launch"
      /\ chosen' = sel
      /\ UNCHANGED <<flags, spawn_failed, env_editor, ret, depth, options,
                     dir_paths, iter, status, edit_flows, launches, stdout,
                     spawned, migrated, cancelled, migrations>>

\* edit_project called by main: the editor is spawned and awaited, the file is
\* loaded again, and every field of `config` is replaced
EditProject(sel) ==
  /\ chosen' = sel
  /\ spawn_failed' = (spawn_failed \/ ~Spawnable(config.editor))
  /\ edit_flows' = edit_flows + 1
  /\ IF ~Spawnable(config.editor)
     THEN /\ Ended("exit1")
          /\ UNCHANGED <<file, config, ret, depth, shown, last_mut>>
     ELSE \E f \in EditorResults(file) :
            /\ file' = f
            /\ ret' = "edit"
            /\ IF FromToml(f.text).ok
               THEN /\ LoadReturns("edit", FromToml(f.text).v)
                    /\ UNCHANGED <<status, shown>>
               ELSE /\ pc' = "recover"
                    /\ shown' = shown \cup {"recover"}
                    /\ UNCHANGED <<config, depth, status, last_mut>>
  /\ UNCHANGED <<flags, env_editor, path, options, dir_paths, iter,
                 file_writes, launches, stdout, spawned, migrated, cancelled,
                 migrations>>

\* main, line 79
Main_CmdNew ==
  /\ pc = "dispatch"
  /\ flags.cmd_or_path = Some(CMD_NEW)
  /\ NewProject(flags.new_path, chosen)

\* main, line 80
Main_CmdEdit ==
  /\ pc = "dispatch"
  /\ flags.cmd_or_path = Some(CMD_EDIT)
  /\ EditProject(chosen)

\* line 81 as `_ => ()`: the argument is dropped and the loop is entered
Main_CmdPathIgnored ==
  /\ pc = "dispatch"
  /\ flags.cmd_or_path.some
  /\ flags.cmd_or_path.v \notin {CMD_NEW, CMD_EDIT}
  /\ pc' = "build"
  /\ UNCHANGED <<flags, chosen, spawn_failed, env_editor, file, config, ret,
                 depth, path, options, dir_paths, iter, status, file_writes,
                 shown, edit_flows, launches, stdout, spawned, last_mut,
                 migrated, cancelled, migrations>>

\* main, line 81
Main_CmdPath ==
  /\ pc = "dispatch"
  /\ flags.cmd_or_path.some
  /\ flags.cmd_or_path.v \notin {CMD_NEW, CMD_EDIT}
  /\ path' = Some(flags.cmd_or_path.v)
  /\ pc' = "launch"
  /\ UNCHANGED <<flags, chosen, spawn_failed, env_editor, file, config, ret,
                 depth, options, dir_paths, iter, status, file_writes, shown,
                 edit_flows, launches, stdout, spawned, last_mut, migrated,
                 cancelled, migrations>>

\* main, line 77 with no positional argument
Main_NoCmd ==
  /\ pc = "dispatch"
  /\ ~flags.cmd_or_path.some
  /\ pc' = "build"
  /\ UNCHANGED <<flags, chosen, spawn_failed, env_editor, file, config, ret,
                 depth, path, options, dir_paths, iter, status, file_writes,
                 shown, edit_flows, launches, stdout, spawned, last_mut,
                 migrated, cancelled, migrations>>

(***************************************************************************)
(* The selection loop, main lines 85-116.                                  *)
(***************************************************************************)
\* lines 86-92: the options are built and the menu is shown; an error of
\* add_options_from_dirs ends main
BuildMenu ==
  /\ pc = "build"
  /\ iter < MaxIter
  /\ iter' = iter + 1
  /\ LET r == BuildOptions(config)
     IN  IF r.ok
         THEN /\ options' = r.options
              /\ dir_paths' = r.map
              /\ shown' = shown \cup {"select"}
              /\ pc' = "menu"
              /\ status' = status
         ELSE /\ Ended("exit1")
              /\ UNCHANGED <<options, dir_paths, shown>>
  /\ UNCHANGED <<flags, chosen, spawn_failed, env_editor, file, config, ret,
                 depth, path, file_writes, edit_flows, launches, stdout,
                 spawned, last_mut, migrated, cancelled, migrations>>

\* a lookup that tries the map of the scan before config.paths
Menu_RegistryAfterScan ==
  /\ pc = "menu"
  /\ \E selected \in Range(options) :
       /\ HasKey(config.paths, selected)
       /\ path' = IF selected \in DOMAIN dir_paths
                  THEN Some(dir_paths[selected])
                  ELSE Some(Get(config.paths, selected))
       /\ chosen' = Some(selected)
  /\ pc' = "launch"
  /\ UNCHANGED <<flags, spawn_failed, env_editor, file, config, ret, depth,
                 options, dir_paths, iter, status, file_writes, shown,
                 edit_flows, launches, stdout, spawned, last_mut, migrated,
                 cancelled, migrations>>

\* line 111: the chosen string is a key of config.paths
Menu_Registry ==
  /\ pc = "menu"
  /\ \E selected \in Range(options) :
       /\ HasKey(config.paths, selected)
       /\ path' = Some(Get(config.paths, selected))
       /\ chosen' = Some(selected)
  /\ pc' = "launch"
  /\ UNCHANGED <<flags, spawn_failed, env_editor, file, config, ret, depth,
                 options, dir_paths, iter, status, file_writes, shown,
                 edit_flows, launches, stdout, spawned, last_mut, migrated,
                 cancelled, migrations>>

\* lines 96-97
Menu_NewProject ==
  /\ pc = "menu"
  /\ \E selected \in Range(options) :
       ~HasKey(config.paths, selected) /\ selected = NEW_PROJECT
  /\ NewProject(NoneStr, Some(NEW_PROJECT))

\* add_dir without its save_config
Menu_NewDirUnsaved ==
  /\ pc = "menu"
  /\ \E selected \in Range(options) :
       ~HasKey(config.paths, selected) /\ selected = NEW_DIR
  /\ \E p \in FileValidatorAccepts :
       LET c1 == IF ~config.dirs.some THEN [config EXCEPT !.dirs = Some(<<>>)]
                 ELSE config
       IN  config' = SortConfig([c1 EXCEPT !.dirs = Some(Append(c1.dirs.v, p))])
  /\ shown' = shown \cup {"text"}
  /\ last_mut' = "add_dir"
  /\ chosen' = Some(NEW_DIR)
  /\ pc' = "build"
  /\ UNCHANGED <<flags, spawn_failed, env_editor, file, file_writes, ret,
                 depth, path, options, dir_paths, iter, status, edit_flows,
                 launches, stdout, spawned, migrated, cancelled, migrations>>

\* lines 98-99 and add_dir: the directory prompt, the push, sort_config and
\* save_config; the loop goes on
Menu_NewDir ==
  /\ pc = "menu"
  /\ \E selected \in Range(options) :
       ~HasKey(config.paths, selected) /\ selected = NEW_DIR
  /\ \E p \in FileValidatorAccepts :
       LET c1 == IF ~config.dirs.some THEN [config EXCEPT !.dirs = Some(<<>>)]
                 ELSE config
       IN  config' = SortConfig([c1 EXCEPT !.dirs = Some(Append(c1.dirs.v, p))])
  /\ file' = SaveConfig(config')
  /\ file_writes' = file_writes + 1
  /\ shown' = shown \cup {"text"}
  /\ last_mut' = "add_dir"
  /\ chosen' = Some(NEW_DIR)
  /\ pc' = "build"
  /\ UNCHANGED <<flags, spawn_failed, env_editor, ret, depth, path, options,
                 dir_paths, iter, status, edit_flows, launches, stdout,
                 spawned, migrated, cancelled, migrations>>

\* lines 100-101
Menu_Edit ==
  /\ pc = "menu"
  /\ \E selected \in Range(options) :
       ~HasKey(config.paths, selected) /\ selected = EDIT
  /\ EditProject(Some(EDIT))

\* the lookup in the map of the scan ahead of the three action strings
Menu_CandidateBeforeActions ==
  /\ pc = "menu"
  /\ \E selected \in Range(options) :
       /\ ~HasKey(config.paths, selected)
       /\ selected \in DOMAIN dir_paths
       /\ chosen' = Some(selected)
       /\ path' = Some(dir_paths[selected])
  /\ pc' = "launch"
  /\ UNCHANGED <<flags, spawn_failed, env_editor, file, config, ret, depth,
                 options, dir_paths, iter, status, file_writes, shown,
                 edit_flows, launches, stdout, spawned, last_mut, migrated,
                 cancelled, migrations>>

\* lines 102-109: any other string is looked up in the map of the scan; a
\* miss is the panic "invalid option, this should never happen"
Menu_Candidate ==
  /\ pc = "menu"
  /\ \E selected \in Range(options) :
       /\ ~HasKey(config.paths, selected)
       /\ selected \notin {NEW_PROJECT, NEW_DIR, EDIT}
       /\ chosen' = Some(selected)
       /\ IF selected \in DOMAIN dir_paths
          THEN path' = Some(dir_paths[selected]) /\ pc' = "launch" /\ status' = status
          ELSE path' = path /\ Ended("panic")
  /\ UNCHANGED <<flags, spawn_failed, env_editor, file, config, ret, depth,
                 options, dir_paths, iter, file_writes, shown, edit_flows,
                 launches, stdout, spawned, last_mut, migrated, cancelled,
                 migrations>>

\* a cancel that saves the registry on its way out
Menu_CancelSaves ==
  /\ pc = "menu"
  /\ cancelled' = TRUE
  /\ chosen' = NoneStr
  /\ file' = SaveConfig(config)
  /\ file_writes' = file_writes + 1
  /\ Ended("exit0")
  /\ UNCHANGED <<flags, spawn_failed, env_editor, config, ret, depth, path,
                 options, dir_paths, iter, shown, edit_flows, launches, stdout,
                 spawned, last_mut, migrated, migrations>>

\* lines 113-115: prompt_skippable returned None
Menu_Cancel ==
  /\ pc = "menu"
  /\ cancelled' = TRUE
  /\ chosen' = NoneStr
  /\ Ended("exit0")
  /\ UNCHANGED <<flags, spawn_failed, env_editor, file, config, ret, depth,
                 path, options, dir_paths, iter, file_writes, shown,
                 edit_flows, launches, stdout, spawned, last_mut, migrated,
                 migrations>>

(***************************************************************************)
(* The Launcher, open_project.                                             *)
(***************************************************************************)
\* open_project that looks at the command only
PrintsIgnoringFlag(cmd, print) == cmd = ""

\* line 286: whether the path is printed
Prints(cmd, print) == print \/ cmd = ""

\* main line 117 and open_project
OpenProject ==
  /\ pc = "launch"
  /\ launches' = Append(launches, [cmd |-> config.open_cmd, path |-> path.v,
                                   print |-> flags.print])
  /\ spawn_failed' = (spawn_failed \/ (~Prints(config.open_cmd, flags.print)
                                        /\ ~Spawnable(config.open_cmd)))
  /\ IF Prints(config.open_cmd, flags.print)
     THEN /\ stdout' = Append(stdout, path.v)
          /\ spawned' = spawned
          /\ Ended("exit0")
     ELSE IF Spawnable(config.open_cmd)
     THEN /\ spawned' = Append(spawned, [cmd |-> config.open_cmd, args |-> <<path.v>>])
          /\ stdout' = stdout
          /\ Ended("exit0")
     ELSE /\ Ended("exit1")
          /\ UNCHANGED <<stdout, spawned>>
  /\ UNCHANGED <<flags, chosen, env_editor, file, config, ret, depth, path,
                 options, dir_paths, iter, file_writes, shown, edit_flows,
                 last_mut, migrated, cancelled, migrations>>

(***************************************************************************)
(* The recovery loop of load_config, lines 123-145.                        *)
(***************************************************************************)
\* "edit" that takes the edited registry whether or not the file parsed
Recover_EditKeepsUnparsed ==
  /\ pc = "recover"
  /\ spawn_failed' = (spawn_failed \/ ~Spawnable(env_editor))
  /\ IF ~Spawnable(env_editor)
     THEN UNCHANGED <<file, config, pc, depth, last_mut>>
     ELSE \E f \in EditorResults(file) :
            /\ file' = f
            /\ LoadReturns(ret, IF FromToml(f.text).ok THEN FromToml(f.text).v
                                 ELSE ProjectsNew(env_editor))
  /\ UNCHANGED <<flags, chosen, env_editor, ret, path, options, dir_paths,
                 iter, status, file_writes, shown, edit_flows, launches,
                 stdout, spawned, migrated, cancelled, migrations>>

\* "edit": edit_project on a fresh Projects::new().  A failure inside it is
\* dropped by is_ok() and the prompt is shown again; its own load_config may
\* open the prompt one level deeper.
Recover_Edit ==
  /\ pc = "recover"
  /\ spawn_failed' = (spawn_failed \/ ~Spawnable(env_editor))
  /\ IF ~Spawnable(env_editor)
     THEN UNCHANGED <<file, config, pc, depth, last_mut>>
     ELSE \E f \in EditorResults(file) :
            /\ file' = f
            /\ IF FromToml(f.text).ok
               THEN LoadReturns(ret, FromToml(f.text).v)
               ELSE /\ depth < MaxDepth
                    /\ depth' = depth + 1
                    /\ UNCHANGED <<config, pc, last_mut>>
  /\ UNCHANGED <<flags, chosen, env_editor, ret, path, options, dir_paths,
                 iter, status, file_writes, shown, edit_flows, launches,
                 stdout, spawned, migrated, cancelled, migrations>>

\* "generate new": a fresh registry is saved and returned
Recover_Generate ==
  /\ pc = "recover"
  /\ file' = SaveConfig(ProjectsNew(env_editor))
  /\ file_writes' = file_writes + 1
  /\ LoadReturns(ret, ProjectsNew(env_editor))
  /\ UNCHANGED <<flags, chosen, spawn_failed, env_editor, ret, path, options,
                 dir_paths, iter, status, shown, edit_flows, launches, stdout,
                 spawned, migrated, cancelled, migrations>>

\* "exit": process::exit(1)
Recover_Exit ==
  /\ pc = "recover"
  /\ Ended("exit1")
  /\ UNCHANGED <<flags, chosen, spawn_failed, env_editor, file, config, ret,
                 depth, path, options, dir_paths, iter, file_writes, shown,
                 edit_flows, launches, stdout, spawned, last_mut, migrated,
                 cancelled, migrations>>

\* the prompt itself fails (it is dismissed): the innermost load_config
\* returns the error, which ends main from the first level and is dropped by
\* the level above otherwise
Recover_PromptError ==
  /\ pc = "recover"
  /\ IF depth = 0
     THEN Ended("exit1") /\ depth' = depth
     ELSE depth' = depth - 1 /\ UNCHANGED <<pc, status>>
  /\ UNCHANGED <<flags, chosen, spawn_failed, env_editor, file, config, ret,
                 path, options, dir_paths, iter, file_writes, shown,
                 edit_flows, launches, stdout, spawned, last_mut, migrated,
                 cancelled, migrations>>

Next ==
  \/ Main_Load
  \/ Main_UpdateConfig
  \/ Main_CmdNew
  \/ Main_CmdEdit
  \/ Main_CmdPath
  \/ Main_NoCmd
  \/ BuildMenu
  \/ Menu_Registry
  \/ Menu_NewProject
  \/ Menu_NewDir
  \/ Menu_Edit
  \/ Menu_Candidate
  \/ Menu_Cancel
  \/ OpenProject
  \/ Recover_Edit
  \/ Recover_Generate
  \/ Recover_Exit
  \/ Recover_PromptError

Spec == Init /\ [][Next]_vars

TypeOK ==
  /\ pc \in {"start", "migrate", "dispatch", "build", "menu", "launch",
             "recover", "done"}
  /\ status \in {"running", "exit0", "exit1", "panic"}
  /\ (pc = "done") = (status # "running")
  /\ depth \in 0..MaxDepth
  /\ iter \in 0..MaxIter

(***************************************************************************)
(* update_config on its own: a registry as loaded from a file, migrated    *)
(* again and again.                                                        *)
(***************************************************************************)
MigrationPaths ==
  { <<>>,
    <<Entry(<<"a">>, PathWA)>>,
    <<Entry(<<"a">>, PathWA), Entry(<<"b">>, PathWB)>>,
    <<Entry(<<"b">>, PathWB), Entry(<<"a">>, PathWA)>> }

\* well-formed files of every schema: each optional key present or not
MigrationDocs ==
  { TomlDoc(TRUE, RequiredKeys \cup opt, d, "code", "vi", so, ex, ps) :
      opt \in SUBSET OptionalKeys, d \in {<<>>, <<PathW>>}, so \in BOOLEAN,
      ex \in BOOLEAN, ps \in MigrationPaths }

InitMigrate ==
  /\ flags = [print |-> FALSE, cmd_or_path |-> NoneStr, new_path |-> NoneStr]
  /\ env_editor = "vi"
  /\ file \in {[exists |-> TRUE, text |-> d] : d \in MigrationDocs}
  /\ config = FromToml(file.text).v
  /\ pc = "migrate"
  /\ ret = "main"
  /\ depth = 0
  /\ path = NoneStr
  /\ options = <<>>
  /\ dir_paths = EmptyMap
  /\ iter = 0
  /\ status = "running"
  /\ file_writes = 0
  /\ shown = {}
  /\ edit_flows = 0
  /\ launches = <<>>
  /\ stdout = <<>>
  /\ spawned = <<>>
  /\ last_mut = "none"
  /\ migrated = FALSE
  /\ cancelled = FALSE
  /\ chosen = NoneStr
  /\ spawn_failed = FALSE
  /\ migrations = 0

\* one more call of update_config(&mut config, &config_file)
Migrate ==
  /\ pc = "migrate"
  /\ migrations < MaxMigrations
  /\ migrations' = migrations + 1
  /\ LET r == UpdateConfig(config, file)
     IN  /\ config' = r.config
         /\ file' = r.file
         /\ file_writes' = file_writes + r.writes
  /\ migrated' = TRUE
  /\ UNCHANGED <<flags, chosen, spawn_failed, env_editor, pc, ret, depth, path,
                 options, dir_paths, iter, status, shown, edit_flows, launches,
                 stdout, spawned, last_mut, cancelled>>

NextMigrate == Migrate

SpecMigrate == InitMigrate /\ [][NextMigrate]_vars

(***************************************************************************)
(* Properties.                                                             *)
(***************************************************************************)
AllPresent(c) == c.dirs.some /\ c.sort.some /\ c.exclude_proj_dirs.some

UniqueKeys(m) == \A i, j \in 1..Len(m) : m[i].k = m[j].k => i = j

\* the process was started with a first argument other than `new` and `edit`
IsPathRun ==
  flags.cmd_or_path.some /\ flags.cmd_or_path.v \notin {CMD_NEW, CMD_EDIT}

\* C1: whenever a registry mutation (new_project, add_dir, edit_project) has
\* completed and `sort` is Some(true), the keys of `paths` are in
\* non-decreasing order.
C1_SortedAfterEveryMutation ==
  (last_mut # "none" /\ config.sort = Some(TRUE)) => IsSorted(Keys(config.paths))

\* C2: started with `edit`, the process runs the editor flow once and exits
\* with status 0; the menu is never rendered and the Launcher never called.
C2_EditThenExit ==
  flags.cmd_or_path = Some(CMD_EDIT) =>
    /\ "select" \notin shown
    /\ launches = <<>>
    /\ edit_flows <= 1
    /\ status = "exit0" => edit_flows = 1

\* C3: started with a first argument that is neither `new` nor `edit`, the
\* menu is never rendered, main's path is nothing but that argument, and the
\* Launcher is called with that argument as the path: never twice, and once
\* in every run that ends after load_config has returned a registry.
C3_DirectPathBypass ==
  IsPathRun =>
    /\ "select" \notin shown
    /\ iter = 0
    /\ path \in {NoneStr, flags.cmd_or_path}
    /\ Len(launches) <= 1
    /\ \A i \in 1..Len(launches) : launches[i].path = flags.cmd_or_path.v
    /\ (pc = "done" /\ migrated) => Len(launches) = 1
    /\ status = "exit0" => Len(launches) = 1

C3_Witness ==
  /\ IsPathRun
  /\ status = "exit0"
  /\ Len(launches) = 1
  /\ launches[1].path = PathWA
  /\ spawned = <<[cmd |-> "code", args |-> <<PathWA>>]>>

\* C4 as stated: on such a run no prompt of any kind is shown, whatever the
\* config file holds.
C4_NoPromptOfAnyKind == IsPathRun => shown = {}

\* C4 as amended: on such a run no selection menu and no text prompt is
\* shown; the parse-recovery choice is shown exactly when the config file
\* main reads fails to parse, and no prompt appears after load_config.
C4_OnlyRecoveryPromptOnParseError ==
  /\ [](IsPathRun => shown \subseteq {"recover"})
  /\ [][IsPathRun =>
          /\ pc = "start" => (("recover" \in shown') <=> ~FromToml(file'.text).ok)
          /\ pc # "start" => shown' = shown]_vars

C4_Witness ==
  /\ IsPathRun
  /\ shown = {"recover"}
  /\ Len(launches) = 1
  /\ status = "exit0"

\* C5: when the selection prompt returns no choice the process exits with
\* status 0, and neither that step nor any later one writes the config file,
\* calls the Launcher or spawns open_cmd.
C5_CancelExitsWithoutEffect ==
  [][cancelled' =>
       /\ status' = "exit0"
       /\ pc' = "done"
       /\ file' = file
       /\ file_writes' = file_writes
       /\ launches' = launches
       /\ spawned' = spawned
       /\ stdout' = stdout]_vars

\* cancelled in the third pass of the loop, after an add_dir that wrote the file
C5_Witness ==
  /\ cancelled
  /\ iter = 3
  /\ last_mut = "add_dir"
  /\ file_writes >= 2
  /\ status = "exit0"

\* C6: a call of the Launcher with the print flag set or an empty open_cmd
\* writes the path to standard output and spawns nothing; a call with the
\* flag unset and a non-empty open_cmd prints nothing and spawns nothing but
\* open_cmd with the path as its single argument; without a call nothing is
\* printed or spawned.
C6_LauncherPrintsOrSpawns ==
  /\ launches = <<>> => stdout = <<>> /\ spawned = <<>>
  /\ \A i \in 1..Len(launches) :
       IF launches[i].print \/ launches[i].cmd = ""
       THEN stdout = <<launches[i].path>> /\ spawned = <<>>
       ELSE /\ stdout = <<>>
            /\ spawned \in {<<>>, <<[cmd |-> launches[i].cmd,
                                    args |-> <<launches[i].path>>]>>}
            /\ status = "exit0" => spawned # <<>>

\* the print override: open_cmd = "code" and the print flag set
C6_Witness ==
  /\ Len(launches) = 1
  /\ launches[1].print
  /\ launches[1].cmd = "code"
  /\ stdout = <<launches[1].path>>
  /\ spawned = <<>>

\* C7: the keys of `paths` are always unique, and a new_project step maps
\* the entered name to the entered path, leaves every other entry as it was
\* and adds an entry only when the name is new.
C7_InsertOverwrites ==
  /\ [](UniqueKeys(config.paths))
  /\ [][(last_mut' = "new_project" /\ pc # "launch" /\ pc' = "launch") =>
          \E n \in ProjectNames :
            /\ HasKey(config'.paths, n)
            /\ Get(config'.paths, n) = path'.v
            /\ Len(config'.paths) =
                 Len(config.paths) + (IF HasKey(config.paths, n) THEN 0 ELSE 1)
            /\ Range(Keys(config'.paths)) = Range(Keys(config.paths)) \cup {n}
            /\ \A k \in Range(Keys(config.paths)) \ {n} :
                 Get(config'.paths, k) = Get(config.paths, k)]_vars

\* `a` was a key with path /w/a in every file that holds two projects; here
\* it has been entered again with /v and the map still holds two entries
C7_Witness ==
  /\ last_mut = "new_project"
  /\ Len(config.paths) = 2
  /\ HasKey(config.paths, <<"a">>)
  /\ Get(config.paths, <<"a">>) = PathV
  /\ config.sort = Some(TRUE)
  /\ path = Some(PathV)

\* C8: update_config on a registry with dirs, sort and exclude_proj_dirs
\* present writes nothing and changes nothing; on a registry with one of them
\* absent it saves once and leaves all three present, so that over any number
\* of migrations the file is written at most once.
C8_MigrationIdempotent ==
  /\ [](file_writes <= 1)
  /\ [][migrations' = migrations + 1 =>
          IF AllPresent(config)
          THEN file_writes' = file_writes /\ config' = config /\ file' = file
          ELSE /\ file_writes' = file_writes + 1
               /\ AllPresent(config')
               /\ file' = SaveConfig(config')]_vars

\* an old-schema registry migrated twice, with one write
C8_Witness ==
  /\ migrations = 2
  /\ file_writes = 1
  /\ AllPresent(config)
  /\ Len(config.paths) = 2

\* C9: once update_config has run, dirs, sort and exclude_proj_dirs are
\* present wherever the loop builds the menu or reacts to a choice.
C9_PresentAfterMigration ==
  (migrated /\ pc \in {"build", "menu"}) => AllPresent(config)

\* the names of the visible sub-directories of the search directories that
\* are scanned (those that have a base name)
VisibleSubdirs(c) ==
  { n.comps[Len(n.comps)] :
      n \in { m \in FsTree :
                /\ m.kind = "dir"
                /\ m.comps[Len(m.comps)][1] # "."
                /\ \E i \in 1..Len(c.dirs.v) :
                     /\ Components(c.dirs.v[i]) # <<>>
                     /\ SubSeq(m.comps, 1, Len(m.comps) - 1) = Components(c.dirs.v[i]) } }

\* name occurs inside a project path or inside a search directory
Overlaps(c, name) ==
  \/ \E i \in 1..Len(c.paths) : Contains(c.paths[i].v, name)
  \/ \E i \in 1..Len(c.dirs.v) : Contains(c.dirs.v[i], name)

\* C10: in every menu, with exclude_proj_dirs = Some(true) the candidates
\* are the visible sub-directories whose name occurs in no project path and
\* in no search directory; otherwise they are all visible sub-directories.
C10_ExcludeProjDirs ==
  pc = "menu" =>
    IF config.exclude_proj_dirs = Some(TRUE)
    THEN DOMAIN dir_paths = {n \in VisibleSubdirs(config) : ~Overlaps(config, n)}
    ELSE DOMAIN dir_paths = VisibleSubdirs(config)

\* paths = {b: /v/c, a: /w/a}, dirs = [/w], exclude_proj_dirs = true: /w
\* holds a, b and w, and only b is a candidate
C10_Witness ==
  /\ pc = "menu"
  /\ config.exclude_proj_dirs = Some(TRUE)
  /\ config.dirs = Some(<<PathW>>)
  /\ HasKey(config.paths, <<"a">>)
  /\ Get(config.paths, <<"a">>) = PathWA
  /\ DOMAIN dir_paths = {<<"b">>}
  /\ <<"a">> \in VisibleSubdirs(config)

\* C11: in every menu each candidate is a directory directly below one of
\* the search directories, mapped to its path there, with a name that does
\* not begin with a dot; a search directory holding .g (directory), s
\* (directory) and R (file) gives the candidate s alone.
C11_CandidatesAreVisibleDirectories ==
  pc = "menu" =>
    /\ \A name \in DOMAIN dir_paths :
         /\ name # <<>> /\ name[1] # "."
         /\ \E i \in 1..Len(config.dirs.v) :
              /\ dir_paths[name] = Join(config.dirs.v[i], name)
              /\ \E n \in FsTree :
                   /\ n.kind = "dir"
                   /\ n.comps = Append(Components(config.dirs.v[i]), name)
    /\ (config.dirs = Some(<<PathU>>) /\ config.exclude_proj_dirs # Some(TRUE))
         => DOMAIN dir_paths = {<<"s">>}

C11_Witness ==
  /\ pc = "menu"
  /\ config.dirs = Some(<<PathU>>)
  /\ DOMAIN dir_paths = {<<"s">>}
  /\ dir_paths[<<"s">>] = <<"/", "u", "/", "s">>

\* C12: at every entry to the building of the options the config file
\* exists, parses, and holds the registry that is in memory.
C12_PersistedBeforeBuild ==
  pc = "build" =>
    /\ file.exists
    /\ FromToml(file.text).ok
    /\ FromToml(file.text).v = config

\* back at the loop after two add_dir calls, each of which wrote the file
C12_Witness ==
  /\ pc = "build"
  /\ last_mut = "add_dir"
  /\ iter = 2
  /\ file_writes >= 2
  /\ Len(config.dirs.v) >= 2

\* C13: once a spawn has failed the process has ended with an error.
C13_SpawnFailureIsFatal ==
  spawn_failed => (pc = "done" /\ status = "exit1")

\* C14: a step of the recovery loop stays in the loop, ends the process with
\* a non-zero status, or returns the registry the file parses to; a step that
\* writes the file is "generate new", which writes and returns a fresh
\* registry; while the file does not parse the loop is not left with a
\* registry.
C14_RecoveryLoop ==
  [][pc = "recover" =>
       /\ pc' \in {"recover", "done", "migrate", "build"}
       /\ pc' = "done" => status' = "exit1"
       /\ pc' \in {"migrate", "build"} =>
            /\ FromToml(file'.text).ok
            /\ config' = FromToml(file'.text).v
       /\ file_writes' # file_writes =>
            /\ file_writes' = file_writes + 1
            /\ file' = SaveConfig(ProjectsNew(env_editor))
            /\ config' = ProjectsNew(env_editor)
            /\ pc' \in {"migrate", "build"}
       /\ ~FromToml(file'.text).ok => pc' \in {"recover", "done"}
       /\ pc' = "recover" => ("recover" \in shown' /\ config' = config)]_vars

\* main's first load_config has left the loop through "generate new"
C14_Witness ==
  /\ "recover" \in shown
  /\ pc = "migrate"
  /\ file_writes = 1
  /\ config = ProjectsNew(env_editor)
  /\ file = SaveConfig(ProjectsNew(env_editor))

\* C15: a chosen string that is a key of `paths` resolves to that key's
\* path and changes nothing, whatever else it is equal to.
C15_RegistryKeyWins ==
  [][(pc = "menu" /\ pc' # "menu" /\ ~cancelled'
        /\ HasKey(config.paths, chosen'.v)) =>
       /\ pc' = "launch"
       /\ path' = Some(Get(config.paths, chosen'.v))
       /\ config' = config
       /\ file' = file]_vars

\* the chosen string is a key and a scanned name, with different paths
C15_Witness ==
  /\ pc = "launch"
  /\ chosen.some
  /\ HasKey(config.paths, chosen.v)
  /\ chosen.v \in DOMAIN dir_paths
  /\ dir_paths[chosen.v] # Get(config.paths, chosen.v)
  /\ path = Some(Get(config.paths, chosen.v))

Sentinels == {NEW_PROJECT, NEW_DIR, EDIT}

\* C16 as stated: a chosen string that is no key of `paths` and is a scanned
\* name resolves to the scanned path.
C16_CandidateBeforeSentinel ==
  [][(pc = "menu" /\ pc' # "menu" /\ ~cancelled'
        /\ ~HasKey(config.paths, chosen'.v)
        /\ chosen'.v \in DOMAIN dir_paths) =>
       (pc' = "launch" /\ path' = Some(dir_paths[chosen'.v]))]_vars

\* C16 as amended: a chosen string that is no key of `paths` triggers its
\* action when it is one of the three action strings, scanned name or not,
\* and resolves to the scanned path otherwise.
C16_SentinelBeforeCandidate ==
  [][(pc = "menu" /\ pc' # "menu" /\ ~cancelled'
        /\ ~HasKey(config.paths, chosen'.v)) =>
       /\ chosen'.v = NEW_PROJECT =>
            (last_mut' = "new_project" /\ file_writes' = file_writes + 1)
       /\ chosen'.v = NEW_DIR =>
            (last_mut' = "add_dir" /\ pc' = "build" /\ path' = path)
       /\ chosen'.v = EDIT =>
            (edit_flows' = edit_flows + 1 /\ path' = path)
       /\ chosen'.v \notin Sentinels =>
            /\ chosen'.v \in DOMAIN dir_paths
            /\ pc' = "launch"
            /\ path' = Some(dir_paths[chosen'.v])]_vars

\* /v holds a directory named [edit]; choosing that string ran the editor
C16_Witness ==
  /\ chosen = Some(EDIT)
  /\ EDIT \in DOMAIN dir_paths
  /\ edit_flows = 1
  /\ ~path.some
  /\ pc = "build"

\* C17: in every menu the options before the three action strings are in
\* non-decreasing order.
C17_OptionsSorted ==
  pc = "menu" => IsSorted(SubSeq(options, 1, Len(options) - 3))

\* C18: the panic is never reached, and every string a menu offers is a key
\* of `paths`, an action string or a key of the map of that menu's scan.
C18_NoInvalidOption ==
  /\ status # "panic"
  /\ pc = "menu" =>
       Range(options) \subseteq
         (Range(Keys(config.paths)) \cup Sentinels \cup DOMAIN dir_paths)

\* a scanned name that is no key and no action string was chosen and resolved
C18_Witness ==
  /\ pc = "launch"
  /\ chosen.some
  /\ ~HasKey(config.paths, chosen.v)
  /\ chosen.v \notin Sentinels
  /\ chosen.v \in DOMAIN dir_paths
  /\ path = Some(dir_paths[chosen.v])

\* C19: the path new_project has inserted exists.
C19_InsertedPathExists ==
  last_mut = "new_project" => Exists(path.v)

\* C20: no string occurs twice in the options of a menu.
C20_OptionsDistinct ==
  pc = "menu" =>
    \A i, j \in 1..Len(options) : options[i] = options[j] => i = j

====
